---- MODULE Spec2Model ----
(***************************************************************************)
(* Model of the ghg-quant ingestion / validation / remote-fetch pipeline.  *)
(*                                                                         *)
(* A table (pandas DataFrame) is a function from column names to columns;  *)
(* a column is a record [dtype, vals] where vals is the sequence of cells. *)
(* A cell is a record [k, v]:                                              *)
(*   k = "num"    a number v                                               *)
(*   k = "numstr" a string that float() parses to the number v             *)
(*   k = "ts"     a timestamp at time v                                    *)
(*   k = "tsstr"  a string that parses to the timestamp v                  *)
(*   k = "bad"    a string that is neither a number nor a date             *)
(***************************************************************************)
EXTENDS Integers, Sequences, FiniteSets, TLC

VARIABLES
    df,        \* the caller's table handed to validate_dataframe
    df0,       \* the table as it was when the caller built it
    outcome,   \* what the last validate_dataframe call did
    calls,     \* number of validate_dataframe calls made on df
    remote,    \* the records the remote source holds, in the query's order
    batchSize, \* the page size the fetch asks for
    offset,    \* offset of the next page request
    received,  \* records of the pages fetched so far, in order of arrival
    requests,  \* log of the requests sent and the responses they got
    last,      \* what the last fetch_data call did, and whether its
               \* table-discovery request went through
    result,    \* the table the fetch handed back
    fpc,       \* where the fetch is: "paging", "done" or "failed"
    dir,       \* the raw data directory: its files, in the order glob lists them
    rf,        \* the last read_file call: its arguments and what it did
    ra,        \* what the last read_and_validate_all_files call did
    rawdf,     \* the table the analysis input was made from
    normalized,\* whether preprocess_data was applied to it
    adf,       \* RegionalAnalysis.df
    column_mapping, \* RegionalAnalysis.column_mapping
    county,    \* what the last county_statistics call did
    csCalls,   \* how many times county_statistics was called
    industry,  \* what the last industry_analysis call did
    temporal,  \* what the last temporal_analysis call did
    ret,       \* what the last analyze_state_emissions call returned
    pin,       \* the table object handed to preprocess_data, as it is now
    pin0,      \* that table as it was handed over
    pout,      \* what the last preprocess_data call did
    gdf,       \* the table handed to create_emissions_plots, as it is now
    gdf0,      \* that table as it was handed over
    gout,      \* what the last create_emissions_plots call did
    disk,      \* the scratch files that exist
    locked,    \* the scratch files whose deletion fails
    batch_files, \* the list handed to _cleanup_batch_files
    cout       \* what the last _cleanup_batch_files call did

vvars == <<df, df0, outcome, calls>>

fvars == <<remote, batchSize, offset, received, requests, last, result, fpc>>

ivars == <<dir, rf, ra>>

rvars == <<rawdf, normalized, adf, column_mapping,
           county, csCalls, industry, temporal, ret>>

pvars == <<pin, pin0, pout>>

gvars == <<gdf, gdf0, gout>>

cvars == <<disk, locked, batch_files, cout>>

lvars == <<pvars, gvars, cvars>>

vars == <<df, df0, outcome, calls,
          remote, batchSize, offset, received, requests, last, result, fpc,
          dir, rf, ra,
          rawdf, normalized, adf, column_mapping,
          county, csCalls, industry, temporal, ret,
          pin, pin0, pout,
          gdf, gdf0, gout,
          disk, locked, batch_files, cout>>

-----------------------------------------------------------------------------
(* Bounds *)

MaxRows == 2
MaxCalls == 2

-----------------------------------------------------------------------------
(* GHGDataValidator.__init__ *)

RequiredColumns == <<"date", "emissions">>

ExpectedType == [c \in {"date", "emissions"} |->
                    IF c = "date" THEN "datetime64" ELSE "float64"]

RuleColumns == <<"emissions">>

EmissionsMin == 0
EmissionsMax == 1000000000

\* pd.Timestamp.now() at the time of the date check; timestamps are counted
\* in months, and now is January 2025
Now == 24300

-----------------------------------------------------------------------------
(* Cells, columns, tables *)

Cell(k, v) == [k |-> k, v |-> v]

Times == {Now - 1, Now, Now + 1}
Amounts == {EmissionsMin - 1, EmissionsMin, EmissionsMax, EmissionsMax + 1}

SeqsOfLen(S, n) == [1..n -> S]

DateColumns(n) ==
    {[dtype |-> "datetime64", vals |-> s] :
        s \in SeqsOfLen({Cell("ts", t) : t \in Times}, n)}
    \cup
    {[dtype |-> "object", vals |-> s] :
        s \in SeqsOfLen({Cell("tsstr", Now - 1), Cell("tsstr", Now + 1),
                         Cell("bad", 0)}, n)}

EmissionsColumns(n) ==
    {[dtype |-> "float64", vals |-> s] :
        s \in SeqsOfLen({Cell("num", a) : a \in Amounts}, n)}
    \cup
    {[dtype |-> "int64", vals |-> s] :
        s \in SeqsOfLen({Cell("num", EmissionsMin), Cell("num", EmissionsMax + 1)}, n)}
    \cup
    {[dtype |-> "object", vals |-> s] :
        s \in SeqsOfLen({Cell("num", EmissionsMax + 1), Cell("numstr", EmissionsMin),
                         Cell("numstr", EmissionsMin - 1), Cell("bad", 0)}, n)}

AliasColumns(n) ==
    {[dtype |-> "float64", vals |-> [i \in 1..n |-> Cell("num", EmissionsMin)]]}

ColumnChoices(c, n) ==
    IF c = "date" THEN DateColumns(n)
    ELSE IF c = "emissions" THEN EmissionsColumns(n)
    ELSE AliasColumns(n)

ColNames == {"date", "emissions", "co2e_emission"}

\* the tables over the columns C with n rows: one choice per column
TablesOver(C, n) ==
    {[c \in C |-> IF c = "date" THEN d ELSE IF c = "emissions" THEN e ELSE a] :
        d \in IF "date" \in C THEN DateColumns(n) ELSE {<<>>},
        e \in IF "emissions" \in C THEN EmissionsColumns(n) ELSE {<<>>},
        a \in IF "co2e_emission" \in C THEN AliasColumns(n) ELSE {<<>>}}

NoColumn == [dtype |-> "absent", vals |-> <<>>]

\* a column of any length up to MaxRows, or none
AnyColumn(c) == {NoColumn} \cup UNION {ColumnChoices(c, n) : n \in 0..MaxRows}

SameLength(q) ==
    \A i, j \in DOMAIN q :
        (q[i] # NoColumn /\ q[j] # NoColumn) => Len(q[i].vals) = Len(q[j].vals)

MakeTable(d, e, a) ==
    [c \in {x \in ColNames :
               (IF x = "date" THEN d ELSE IF x = "emissions" THEN e ELSE a) # NoColumn} |->
        IF c = "date" THEN d ELSE IF c = "emissions" THEN e ELSE a]

Tables ==
    {MakeTable(q[1], q[2], q[3]) :
        q \in {p \in AnyColumn("date") \X AnyColumn("emissions")
                        \X AnyColumn("co2e_emission") : SameLength(p)}}

Columns(d) == DOMAIN d

\* a rename that adds the new name and keeps the old column as well
RenameKeepsOld(d, old, new) ==
    [c \in Columns(d) \cup {new} |-> IF c = new THEN d[old] ELSE d[c]]

\* DataFrame.rename(columns={old: new})
Rename(d, old, new) ==
    [c \in (Columns(d) \ {old}) \cup {new} |-> IF c = new THEN d[old] ELSE d[c]]

-----------------------------------------------------------------------------
(* Series.astype / pd.to_datetime *)

Convertible(cell, dtype) ==
    IF dtype = "float64" THEN cell.k \in {"num", "numstr"}
    ELSE cell.k \in {"ts", "tsstr"}

\* astype raises ValueError when a cell cannot be converted
AsTypeRaises(col, dtype) ==
    \E i \in 1..Len(col.vals) : ~Convertible(col.vals[i], dtype)

AsType(col, dtype) ==
    [dtype |-> dtype,
     vals  |-> [i \in 1..Len(col.vals) |->
                  Cell(IF dtype = "float64" THEN "num" ELSE "ts", col.vals[i].v)]]

-----------------------------------------------------------------------------
(* GHGDataValidator.validate_dataframe *)

Issue(msg, col) == [msg |-> msg, col |-> col]

NoIssues ==
    [missing_columns |-> <<>>, type_errors |-> <<>>,
     value_errors |-> <<>>, date_errors |-> <<>>]

RECURSIVE MissingFrom(_, _, _)
MissingFrom(i, d, acc) ==
    IF i > Len(RequiredColumns) THEN acc
    ELSE LET col == RequiredColumns[i] IN
         IF col \notin Columns(d)
         THEN MissingFrom(i + 1, d, Append(acc, Issue("Missing required column", col)))
         ELSE MissingFrom(i + 1, d, acc)

\* a check that stops at the first absent column
MissingColumnsFirstOnly(d) ==
    LET all == MissingFrom(1, d, <<>>) IN
    IF all = <<>> THEN all ELSE <<all[1]>>

MissingColumns(d) == MissingFrom(1, d, <<>>)

\* the data-type loop: returns the table after the in-place conversions
\* and the type_errors it recorded
RECURSIVE TypeCheckFrom(_, _, _)
TypeCheckFrom(i, d, errs) ==
    IF i > Len(RequiredColumns) THEN [df |-> d, errs |-> errs]
    ELSE LET col      == RequiredColumns[i]
             expected == ExpectedType[col]
         IN  IF d[col].dtype = expected
             THEN TypeCheckFrom(i + 1, d, errs)
             ELSE IF AsTypeRaises(d[col], expected)
                  THEN TypeCheckFrom(i + 1, d,
                         Append(errs, Issue("could not be converted", col)))
                  ELSE TypeCheckFrom(i + 1,
                         [d EXCEPT ![col] = AsType(@, expected)], errs)

TypeCheck(d) == TypeCheckFrom(1, d, <<>>)

\* (df[col] < min) | (df[col] > max): comparing a str cell with a number
\* raises TypeError, which validate_dataframe does not catch
CompareRaises(col) ==
    \E i \in 1..Len(col.vals) : col.vals[i].k # "num"

\* a range check that excludes the bounds
OutOfRangeExclusive(cell) == cell.v <= EmissionsMin \/ cell.v >= EmissionsMax

OutOfRange(cell) == cell.v < EmissionsMin \/ cell.v > EmissionsMax

MaskAny(col) == \E i \in 1..Len(col.vals) : OutOfRange(col.vals[i])

RECURSIVE RangeCheckFrom(_, _, _)
RangeCheckFrom(i, d, errs) ==
    IF i > Len(RuleColumns) THEN [raised |-> FALSE, errs |-> errs]
    ELSE LET col == RuleColumns[i] IN
         IF col \notin Columns(d) THEN RangeCheckFrom(i + 1, d, errs)
         ELSE IF CompareRaises(d[col]) THEN [raised |-> TRUE, errs |-> errs]
         ELSE IF MaskAny(d[col])
              THEN RangeCheckFrom(i + 1, d,
                     Append(errs, Issue("contains values outside valid range", col)))
              ELSE RangeCheckFrom(i + 1, d, errs)

RangeCheck(d) == RangeCheckFrom(1, d, <<>>)

FutureDates(col) == \E i \in 1..Len(col.vals) : col.vals[i].v > Now

DateCheck(d) ==
    IF "date" \notin Columns(d) THEN [df |-> d, errs |-> <<>>]
    ELSE IF AsTypeRaises(d["date"], "datetime64")
         THEN [df |-> d, errs |-> <<Issue("Invalid date format", "date")>>]
         ELSE LET d2 == [d EXCEPT !["date"] = AsType(@, "datetime64")] IN
              [df   |-> d2,
               errs |-> IF FutureDates(d2["date"])
                        THEN <<Issue("Found dates in the future", "date")>>
                        ELSE <<>>]

\* a validator that reads co2e_emission where a table has no emissions column
ValidateDataframeAlias(d) ==
    LET e == IF "co2e_emission" \in Columns(d) /\ "emissions" \notin Columns(d)
             THEN Rename(d, "co2e_emission", "emissions") ELSE d
        missing == MissingColumns(e)
    IN
    IF missing # <<>>
    THEN [raised |-> FALSE,
          issues |-> [NoIssues EXCEPT !.missing_columns = missing],
          df     |-> d]
    ELSE LET tc == TypeCheck(e)
             rc == RangeCheck(tc.df)
             dc == DateCheck(tc.df)
         IN  IF rc.raised
             THEN [raised |-> TRUE, issues |-> NoIssues, df |-> tc.df]
             ELSE [raised |-> FALSE,
                   issues |-> [missing_columns |-> <<>>,
                               type_errors     |-> tc.errs,
                               value_errors    |-> rc.errs,
                               date_errors     |-> dc.errs],
                   df     |-> dc.df]

\* the whole call: whether it raised, the report it returned, and the
\* caller's table as the call left it
ValidateDataframe(d) ==
    LET missing == MissingColumns(d) IN
    IF missing # <<>>
    THEN [raised |-> FALSE,
          issues |-> [NoIssues EXCEPT !.missing_columns = missing],
          df     |-> d]
    ELSE LET tc == TypeCheck(d)
             rc == RangeCheck(tc.df)
             dc == DateCheck(tc.df)
         IN  IF rc.raised
             THEN [raised |-> TRUE, issues |-> NoIssues, df |-> tc.df]
             ELSE [raised |-> FALSE,
                   issues |-> [missing_columns |-> <<>>,
                               type_errors     |-> tc.errs,
                               value_errors    |-> rc.errs,
                               date_errors     |-> dc.errs],
                   df     |-> dc.df]

-----------------------------------------------------------------------------
(* Rows of a table *)

EmptyTable == [c \in {} |-> 0]

NRows(d) ==
    IF Columns(d) = {} THEN 0
    ELSE Len(d[CHOOSE c \in Columns(d) : TRUE].vals)

\* DataFrame.empty
IsEmpty(d) == Columns(d) = {} \/ NRows(d) = 0

Row(d, i) == [c \in Columns(d) |-> d[c].vals[i]]

SelectRows(d, idx) ==
    [c \in Columns(d) |->
        [dtype |-> d[c].dtype,
         vals  |-> [j \in 1..Len(idx) |-> d[c].vals[idx[j]]]]]

InferDtype(cells) ==
    IF \A i \in 1..Len(cells) : cells[i].k = "num" THEN "int64" ELSE "object"

\* pd.DataFrame.from_records(records): one row per record, in order
FromRecords(records) ==
    [c \in DOMAIN records[1] |->
        LET cells == [i \in 1..Len(records) |-> records[i][c]] IN
        [dtype |-> InferDtype(cells), vals |-> cells]]

\* pd.concat of two batches that carry the same columns
Concat(a, b) ==
    IF Columns(a) = {} THEN b
    ELSE IF Columns(b) = {} THEN a
    ELSE [c \in Columns(a) |-> [dtype |-> a[c].dtype, vals |-> a[c].vals \o b[c].vals]]

-----------------------------------------------------------------------------
(* EPADataSource.preprocess_data *)

ColumnMapping ==
    <<<<"co2e_emission", "emissions">>,
      <<"sector_name", "industry">>,
      <<"facility_name", "facility">>>>

NumericColumns ==
    <<<<"year", "int64">>, <<"emissions", "float64">>,
      <<"latitude", "float64">>, <<"longitude", "float64">>>>

RECURSIVE RenameFrom(_, _)
RenameFrom(i, d) ==
    IF i > Len(ColumnMapping) THEN d
    ELSE LET old == ColumnMapping[i][1]
             new == ColumnMapping[i][2]
         IN  IF old \in Columns(d) /\ new \notin Columns(d)
             THEN RenameFrom(i + 1, Rename(d, old, new))
             ELSE RenameFrom(i + 1, d)

\* pd.to_numeric(errors="coerce"): what is not a number becomes NaN
ToNumeric(col) ==
    [dtype |-> "float64",
     vals  |-> [i \in 1..Len(col.vals) |->
                  IF col.vals[i].k \in {"num", "numstr"}
                  THEN Cell("num", col.vals[i].v)
                  ELSE Cell("nan", 0)]]

\* astype("int64") raises on NaN
IntCastRaises(col, dtype) ==
    dtype = "int64" /\ \E i \in 1..Len(col.vals) : col.vals[i].k = "nan"

RECURSIVE NumericFrom(_, _)
NumericFrom(i, d) ==
    IF i > Len(NumericColumns) THEN [raised |-> FALSE, df |-> d]
    ELSE LET col   == NumericColumns[i][1]
             dtype == NumericColumns[i][2]
         IN  IF col \notin Columns(d) THEN NumericFrom(i + 1, d)
             ELSE LET n == ToNumeric(d[col]) IN
                  IF IntCastRaises(n, dtype)
                  THEN [raised |-> TRUE, df |-> [d EXCEPT ![col] = n]]
                  ELSE NumericFrom(i + 1,
                         [d EXCEPT ![col] = [dtype |-> dtype, vals |-> n.vals]])

\* the two name parts of a "sector - subsector" string, packed in one code
JoinNames(a, b) == Cell("str", 100 * a.v + b.v)

AddSectorFull(d) ==
    IF {"sector_name", "subsector_name"} \subseteq Columns(d)
    THEN [c \in Columns(d) \cup {"sector_full"} |->
            IF c = "sector_full"
            THEN [dtype |-> "object",
                  vals  |-> [i \in 1..NRows(d) |->
                               JoinNames(d["sector_name"].vals[i],
                                         d["subsector_name"].vals[i])]]
            ELSE d[c]]
    ELSE d

\* pd.to_datetime(str(year), format="%Y"): the first month of the year
YearStart(y) == 12 * y

\* a date derivation that does not look for an existing date column
AddDateAlways(d) ==
    IF "year" \in Columns(d)
    THEN [c \in Columns(d) \cup {"date"} |->
            IF c = "date"
            THEN [dtype |-> "datetime64",
                  vals  |-> [i \in 1..NRows(d) |->
                               Cell("ts", YearStart(d["year"].vals[i].v))]]
            ELSE d[c]]
    ELSE d

AddDate(d) ==
    IF "year" \in Columns(d) /\ "date" \notin Columns(d)
    THEN [c \in Columns(d) \cup {"date"} |->
            IF c = "date"
            THEN [dtype |-> "datetime64",
                  vals  |-> [i \in 1..NRows(d) |->
                               Cell("ts", YearStart(d["year"].vals[i].v))]]
            ELSE d[c]]
    ELSE d

\* indices of the rows drop_duplicates keeps: the first of each run of equals
RECURSIVE KeepFirst(_, _, _)
KeepFirst(d, i, acc) ==
    IF i > NRows(d) THEN acc
    ELSE IF \E j \in 1..(i - 1) : Row(d, j) = Row(d, i)
         THEN KeepFirst(d, i + 1, acc)
         ELSE KeepFirst(d, i + 1, Append(acc, i))

DropDuplicates(d) == SelectRows(d, KeepFirst(d, 1, <<>>))

\* row i sorts strictly before row j: year descending, then emissions descending
SortsBefore(d, i, j) ==
    \/ d["year"].vals[i].v > d["year"].vals[j].v
    \/ /\ d["year"].vals[i].v = d["year"].vals[j].v
       /\ d["emissions"].vals[i].v > d["emissions"].vals[j].v

InsertSorted(d, idx, i) ==
    LET k == IF \E p \in 1..Len(idx) : SortsBefore(d, i, idx[p])
             THEN (CHOOSE p \in 1..Len(idx) :
                     /\ SortsBefore(d, i, idx[p])
                     /\ \A q \in 1..(p - 1) : ~SortsBefore(d, i, idx[q])) - 1
             ELSE Len(idx)
    IN  SubSeq(idx, 1, k) \o <<i>> \o SubSeq(idx, k + 1, Len(idx))

RECURSIVE SortIndex(_, _, _)
SortIndex(d, i, idx) ==
    IF i > NRows(d) THEN idx
    ELSE SortIndex(d, i + 1, InsertSorted(d, idx, i))

Reverse(q) == [i \in 1..Len(q) |-> q[Len(q) + 1 - i]]

\* a sort with ascending=[True, True]
SortValuesAscending(d) ==
    IF {"year", "emissions"} \subseteq Columns(d)
    THEN SelectRows(d, Reverse(SortIndex(d, 1, <<>>)))
    ELSE d

SortValues(d) ==
    IF {"year", "emissions"} \subseteq Columns(d)
    THEN SelectRows(d, SortIndex(d, 1, <<>>))
    ELSE d

PreprocessData(d) ==
    IF IsEmpty(d) THEN [raised |-> FALSE, df |-> d]
    ELSE LET renamed == RenameFrom(1, d)
             numeric == NumericFrom(1, renamed)
         IN  IF numeric.raised THEN numeric
             ELSE [raised |-> FALSE,
                   df |-> SortValues(DropDuplicates(AddDate(AddSectorFull(numeric.df))))]

-----------------------------------------------------------------------------
(* The remote source and its responses *)

MaxRecords == 4
MaxBatch == 2

RawRecord(y, e, f) ==
    [year |-> Cell("num", y), co2e_emission |-> Cell("num", e),
     facility_name |-> Cell("str", f)]

RawRecords == {RawRecord(2022, 10, 1), RawRecord(2022, 20, 2), RawRecord(2023, 10, 1)}

Remotes == UNION {SeqsOfLen(RawRecords, n) : n \in 0..MaxRecords}

\* the records a query with this offset and limit selects
Page(recs, off, lim) ==
    SubSeq(recs, off + 1, IF off + lim < Len(recs) THEN off + lim ELSE Len(recs))

Statuses == {200, 201, 500}

\* shape of the JSON body: no "data" key, "data": null, "data" without the
\* table's key, the table's key null, or the table's key holding an array
Shapes == {"no_data", "data_null", "no_table", "table_null", "table"}

TransportError ==
    [transport |-> "error", status |-> 0, errors |-> FALSE, shape |-> "no_data"]

Responses ==
    {TransportError} \cup
    [transport : {"ok"}, status : Statuses, errors : BOOLEAN, shape : Shapes]

-----------------------------------------------------------------------------
(* EPADataSource.fetch_data *)

Raised == [kind |-> "raised", table |-> EmptyTable]

Returned(t) == [kind |-> "table", table |-> t]

\* data.get("data", {}).get("ghg__rlps_ghg_emitter_sector", []); a null
\* "data" has no get and the lookup raises AttributeError
RecordsOf(resp, page) ==
    IF resp.shape = "table" THEN page ELSE <<>>

\* a fetch that does not look for the errors field
FetchDataIgnoresErrors(resp, page) ==
    IF resp.transport # "ok" THEN Raised
    ELSE IF resp.status # 200 THEN Raised
    ELSE IF resp.shape = "data_null" THEN Raised
    ELSE LET records == RecordsOf(resp, page) IN
         IF records = <<>> THEN Returned(EmptyTable)
         ELSE Returned(FromRecords(records))

FetchData(resp, page) ==
    IF resp.transport # "ok" THEN Raised
    ELSE IF resp.status # 200 THEN Raised
    ELSE IF resp.errors THEN Raised
    ELSE IF resp.shape = "data_null" THEN Raised
    ELSE LET records == RecordsOf(resp, page) IN
         IF records = <<>> THEN Returned(EmptyTable)
         ELSE Returned(FromRecords(records))

\* the requests one fetch_data call puts on the wire, in order
DiscoveryRequest == [kind |-> "discovery", offset |-> 0, limit |-> 0]

DataRequest(off, lim) == [kind |-> "data", offset |-> off, limit |-> lim]

\* a fetch that sends the data request again when it failed
WireWithRetry(resp, page, off, lim) ==
    IF FetchData(resp, page).kind = "raised"
    THEN <<DiscoveryRequest, DataRequest(off, lim), DataRequest(off, lim)>>
    ELSE <<DiscoveryRequest, DataRequest(off, lim)>>

\* discover_available_tables posts once and swallows its failure; the data
\* request is posted once whatever came back
Wire(resp, page, off, lim) == <<DiscoveryRequest, DataRequest(off, lim)>>

-----------------------------------------------------------------------------
(* Files of the raw data directory *)

MaxFiles == 2

\* a file name is its stem and its suffix (Path.suffix); the file at
\* position i of the directory has stem i, and stem 0 names no file
FileName(stem, suffix) == [stem |-> stem, suffix |-> suffix]

DirSuffixes == {".csv", ".xlsx", ".txt"}

Suffixes == DirSuffixes \cup {".xls", ".CSV"}

\* tables a one-row data file decodes to: dates come as text, emissions as
\* whole numbers or, when a cell is not a number, as text
FileTables ==
    {t \in UNION {TablesOver(C, 1) : C \in (SUBSET {"date", "emissions"}) \ {{}}} :
        /\ "date" \in Columns(t) =>
              /\ t["date"].dtype = "object"
              /\ t["date"].vals[1] # Cell("tsstr", Now + 1)
              /\ t["date"].vals[1].k = "bad" =>
                    /\ "emissions" \in Columns(t)
                    /\ t["emissions"].vals[1] = Cell("num", EmissionsMin)
        /\ "emissions" \in Columns(t) =>
              \/ t["emissions"].dtype = "int64"
              \/ t["emissions"].dtype = "object" /\ t["emissions"].vals[1].k = "bad"}

\* what a file holds: a table, nothing at all (zero bytes), or bytes that
\* are not a table in the file's format
FileContents ==
    {[kind |-> "table", table |-> t] : t \in FileTables}
    \cup {[kind |-> "empty", table |-> EmptyTable],
          [kind |-> "corrupt", table |-> EmptyTable]}

\* what read_file never decodes is left out: a file with an unsupported
\* suffix is taken to be empty, a file without date to hold emissions 0
DirEntries ==
    {e \in [suffix : DirSuffixes, content : FileContents] :
        /\ e.suffix = ".txt" => e.content.kind = "empty"
        /\ (e.content.kind = "table" /\ "date" \notin Columns(e.content.table)) =>
               e.content.table["emissions"].vals[1] = Cell("num", EmissionsMin)}

Directories == UNION {[1..n -> DirEntries] : n \in 0..MaxFiles}

NameAt(d, i) == FileName(i, d[i].suffix)

Exists(d, name) == name.stem \in 1..Len(d) /\ d[name.stem].suffix = name.suffix

-----------------------------------------------------------------------------
(* DataIngestion.read_file *)

Exc(cls, msg) == [cls |-> cls, msg |-> msg]

NoExc == Exc("", "")

\* the exception classes that `except ValueError` catches
ValueErrors == {"ValueError", "EmptyDataError", "ParserError"}

ReadOutcome(kind, exc, table, opened) ==
    [kind |-> kind, exc |-> exc, table |-> table, opened |-> opened]

\* pd.read_csv / pd.read_excel on a path
Decode(d, name) ==
    IF ~Exists(d, name)
    THEN [raised |-> TRUE, exc |-> Exc("FileNotFoundError", ""), table |-> EmptyTable]
    ELSE LET c == d[name.stem].content IN
         IF c.kind = "table"
         THEN [raised |-> FALSE, exc |-> NoExc, table |-> c.table]
         ELSE IF name.suffix = ".csv"
         THEN [raised |-> TRUE,
               exc |-> IF c.kind = "empty" THEN Exc("EmptyDataError", "")
                       ELSE Exc("ParserError", ""),
               table |-> EmptyTable]
         ELSE [raised |-> TRUE,
               exc |-> IF c.kind = "empty"
                       THEN Exc("ValueError", "Excel file format cannot be determined")
                       ELSE Exc("BadZipFile", ""),
               table |-> EmptyTable]

\* has_issues taken with all() instead of any()
HasIssuesAll(issues) ==
    \A cat \in DOMAIN issues : issues[cat] # <<>>

\* has_issues that treats value_errors as a warning
HasIssuesButRange(issues) ==
    \E cat \in DOMAIN issues \ {"value_errors"} : issues[cat] # <<>>

\* any(issues for issues in validation_issues.values())
HasIssues(issues) ==
    \E cat \in DOMAIN issues : issues[cat] # <<>>

\* a read_file that looks for the file before it looks at the suffix
ReadFileExistsFirst(d, name, validate) ==
    IF ~Exists(d, name)
    THEN ReadOutcome("raised", Exc("FileNotFoundError", ""), EmptyTable, TRUE)
    ELSE IF name.suffix \notin {".csv", ".xlsx", ".xls"}
    THEN ReadOutcome("raised", Exc("ValueError", "Unsupported file format"),
                     EmptyTable, FALSE)
    ELSE LET r == Decode(d, name) IN
         IF r.raised THEN ReadOutcome("raised", r.exc, EmptyTable, TRUE)
         ELSE IF ~validate THEN ReadOutcome("returned", NoExc, r.table, TRUE)
         ELSE LET v == ValidateDataframe(r.table) IN
              IF v.raised
              THEN ReadOutcome("raised", Exc("TypeError", ""), EmptyTable, TRUE)
              ELSE IF HasIssues(v.issues)
              THEN ReadOutcome("raised", Exc("ValueError", "Data validation failed"),
                               EmptyTable, TRUE)
              ELSE ReadOutcome("returned", NoExc, v.df, TRUE)

ReadFile(d, name, validate) ==
    IF name.suffix \notin {".csv", ".xlsx", ".xls"}
    THEN ReadOutcome("raised", Exc("ValueError", "Unsupported file format"),
                     EmptyTable, FALSE)
    ELSE LET r == Decode(d, name) IN
         IF r.raised THEN ReadOutcome("raised", r.exc, EmptyTable, TRUE)
         ELSE IF ~validate THEN ReadOutcome("returned", NoExc, r.table, TRUE)
         ELSE LET v == ValidateDataframe(r.table) IN
              IF v.raised
              THEN ReadOutcome("raised", Exc("TypeError", ""), EmptyTable, TRUE)
              ELSE IF HasIssues(v.issues)
              THEN ReadOutcome("raised", Exc("ValueError", "Data validation failed"),
                               EmptyTable, TRUE)
              ELSE ReadOutcome("returned", NoExc, v.df, TRUE)

-----------------------------------------------------------------------------
(* DataIngestion.list_available_files, read_and_validate_all_files *)

RECURSIVE ListFrom(_, _, _)
ListFrom(d, i, acc) ==
    IF i > Len(d) THEN acc
    ELSE IF d[i].suffix \in {".csv", ".xlsx", ".xls"}
         THEN ListFrom(d, i + 1, Append(acc, NameAt(d, i)))
         ELSE ListFrom(d, i + 1, acc)

ListAvailableFiles(d) == ListFrom(d, 1, <<>>)

NoFiles == [n \in {} |-> EmptyTable]

\* the loop over the listed files: a ValueError skips the file, any other
\* exception leaves the loop and the call
RECURSIVE ReadAllFrom(_, _, _, _)
ReadAllFrom(d, names, i, valid) ==
    IF i > Len(names) THEN [kind |-> "returned", exc |-> NoExc, files |-> valid]
    ELSE LET r == ReadFile(d, names[i], TRUE) IN
         IF r.kind = "returned"
         THEN ReadAllFrom(d, names, i + 1, valid @@ (names[i] :> r.table))
         ELSE IF r.exc.cls \in ValueErrors
         THEN ReadAllFrom(d, names, i + 1, valid)
         ELSE [kind |-> "raised", exc |-> r.exc, files |-> NoFiles]

ReadAndValidateAllFiles(d) == ReadAllFrom(d, ListAvailableFiles(d), 1, NoFiles)

-----------------------------------------------------------------------------
(* The calls a user of DataIngestion makes *)

NoRead ==
    [called |-> FALSE, name |-> FileName(0, ""), validate |-> FALSE,
     out |-> ReadOutcome("none", NoExc, EmptyTable, FALSE)]

NoReadAll == [kind |-> "none", exc |-> NoExc, files |-> NoFiles]

ReadFileCall ==
    /\ \E name \in {NameAt(dir, i) : i \in 1..Len(dir)}
                   \cup {FileName(0, x) : x \in Suffixes},
          validate \in BOOLEAN :
          rf' = [called |-> TRUE, name |-> name, validate |-> validate,
                 out |-> ReadFile(dir, name, validate)]
    /\ UNCHANGED <<dir, ra>>

ReadAllCall ==
    /\ ra' = ReadAndValidateAllFiles(dir)
    /\ UNCHANGED <<dir, rf>>

-----------------------------------------------------------------------------
(* Tables handed to RegionalAnalysis *)

MaxAnalysisRows == 3

\* names (county, facility, sector) are codes, facility 0 is a missing
\* value; a date is a month count and YearStart(y) its first month
AnalysisRow(c, e, f, s, t) ==
    [county |-> Cell("str", c), emissions |-> Cell("num", e),
     facility |-> IF f = 0 THEN Cell("nan", 0) ELSE Cell("str", f),
     sector |-> Cell("str", s),
     date |-> Cell("ts", t)]

AnalysisRows ==
    {AnalysisRow(1, 100, 1, 1, YearStart(2023)),
     AnalysisRow(1, 50, 2, 2, YearStart(2023) + 1),
     AnalysisRow(2, 200, 1, 1, YearStart(2024)),
     AnalysisRow(3, 50, 0, 1, YearStart(2024))}

Fields == {"county", "emissions", "facility", "sector", "date"}

\* the column names of the remote table
FetchedLayout ==
    [county |-> "county", emissions |-> "co2e_emission",
     facility |-> "facility_name", sector |-> "sector_name", date |-> "year"]

\* the remote names with emissions and date already in place
RawLayout ==
    [county |-> "county", emissions |-> "emissions",
     facility |-> "facility_name", sector |-> "sector_name", date |-> "date"]

\* the canonical names of a hand-made table
FacilityLayout ==
    [county |-> "county", emissions |-> "emissions", facility |-> "facility"]

Without(l, f) == [x \in DOMAIN l \ {f} |-> l[x]]

Layouts ==
    {FetchedLayout, RawLayout, FacilityLayout}
    \cup {Without(RawLayout, f) : f \in Fields}

YearOf(t) == t \div 12

MonthOf(t) == (t % 12) + 1

ColumnDtype(c) ==
    CASE c \in {"emissions", "co2e_emission"} -> "float64"
      [] c = "year" -> "int64"
      [] c = "date" -> "datetime64"
      [] OTHER -> "object"

TableOf(rows, l) ==
    [c \in {l[f] : f \in DOMAIN l} |->
        LET f == CHOOSE x \in DOMAIN l : l[x] = c IN
        [dtype |-> ColumnDtype(c),
         vals  |-> [i \in 1..Len(rows) |->
                      IF c = "year" THEN Cell("num", YearOf(rows[i][f].v))
                      ELSE rows[i][f]]]]

AnalysisTables ==
    {EmptyTable}
    \cup {TableOf(rows, l) :
            rows \in UNION {SeqsOfLen(AnalysisRows, n) : n \in 0..MaxAnalysisRows},
            l \in Layouts}

-----------------------------------------------------------------------------
(* Group-by aggregation *)

EmptySeries == [k \in {} |-> 0]

\* the keys of the groups: NaN keys are dropped
GroupKeys(keys) == {keys[i].v : i \in {j \in DOMAIN keys : keys[j].k # "nan"}}

GroupRows(keys, k) == {i \in DOMAIN keys : keys[i].k # "nan" /\ keys[i].v = k}

RECURSIVE SumFrom(_, _, _)
SumFrom(vals, rows, i) ==
    IF i > Len(vals) THEN 0
    ELSE (IF i \in rows /\ vals[i].k # "nan" THEN vals[i].v ELSE 0)
         + SumFrom(vals, rows, i + 1)

Sum(col, rows) == SumFrom(col.vals, rows, 1)

Count(col, rows) == Cardinality({i \in rows : col.vals[i].k # "nan"})

NUnique(col, rows) == Cardinality({col.vals[i].v : i \in {j \in rows : col.vals[j].k # "nan"}})

RECURSIVE GCD(_, _)
GCD(a, b) == IF b = 0 THEN a ELSE GCD(b, a % b)

\* float division of two non-negative whole numbers, as a fraction in
\* lowest terms; x / 0 is inf and 0 / 0 is NaN
Quotient(n, d) ==
    IF d = 0 THEN [k |-> IF n = 0 THEN "nan" ELSE "inf", num |-> 0, den |-> 0]
    ELSE [k |-> "num", num |-> n \div GCD(n, d), den |-> d \div GCD(n, d)]

Mean(col, rows) == Quotient(Sum(col, rows), Count(col, rows))

KeyColumn(d, c) == d[c].vals

GroupBySum(keys, col) == [k \in GroupKeys(keys) |-> Sum(col, GroupRows(keys, k))]

GroupByMean(keys, col) == [k \in GroupKeys(keys) |-> Mean(col, GroupRows(keys, k))]

GroupByNUnique(keys, col) == [k \in GroupKeys(keys) |-> NUnique(col, GroupRows(keys, k))]

\* index-aligned division of two series over the same groups
SeriesQuotient(a, b) == [k \in DOMAIN a |-> Quotient(a[k], b[k])]

-----------------------------------------------------------------------------
(* RegionalAnalysis *)

RequiredAlternatives ==
    [emissions |-> <<"emissions", "ghg_quantity", "co2e_emission">>,
     sector    |-> <<"sector", "reported_industry_types", "industry_type">>,
     county    |-> <<"county">>,
     facility  |-> <<"facility_name", "facility">>,
     date      |-> <<"date", "year">>]

Found(alts, cols) == {i \in 1..Len(alts) : alts[i] \in cols}

FirstFound(alts, cols) ==
    alts[CHOOSE i \in Found(alts, cols) : \A j \in Found(alts, cols) : i <= j]

\* __init__: for each key the first alternative that is a column
ColumnMappingOf(d) ==
    [key \in {x \in DOMAIN RequiredAlternatives :
                Found(RequiredAlternatives[x], Columns(d)) # {}} |->
        FirstFound(RequiredAlternatives[key], Columns(d))]

Answer(kind, exc, value, table) ==
    [kind |-> kind, exc |-> exc, value |-> value, df |-> table]

CountyRequired == {"county", "emissions", "facility_name", "sector_name"}

CountyKeys ==
    {"total_emissions", "avg_emissions", "facility_count", "sector_count",
     "emissions_per_facility"}

EmptyCountyStats == [s \in CountyKeys |-> EmptySeries]

\* the five aggregates of county_statistics with the facility and sector
\* columns given by name
CountyAggregates(d, facility, sector) ==
    LET keys == KeyColumn(d, "county") IN
    [total_emissions |-> GroupBySum(keys, d["emissions"]),
     avg_emissions   |-> GroupByMean(keys, d["emissions"]),
     facility_count  |-> GroupByNUnique(keys, d[facility]),
     sector_count    |-> GroupByNUnique(keys, d[sector]),
     emissions_per_facility |->
         SeriesQuotient(GroupBySum(keys, d["emissions"]),
                        GroupByNUnique(keys, d[facility]))]

\* a county_statistics that drops the first row of the table it has read
CountyStatisticsConsuming(d) ==
    LET rest == IF NRows(d) = 0 THEN d
                ELSE SelectRows(d, [i \in 1..(NRows(d) - 1) |-> i + 1])
    IN
    IF IsEmpty(d) THEN Answer("returned", "", EmptySeries, rest)
    ELSE IF ~(CountyRequired \subseteq Columns(d))
    THEN Answer("returned", "", EmptyCountyStats, rest)
    ELSE Answer("returned", "",
                CountyAggregates(d, "facility_name", "sector_name"), rest)

\* the returned dict and the table as the call leaves it
CountyStatistics(d) ==
    IF IsEmpty(d) THEN Answer("returned", "", EmptySeries, d)
    ELSE IF ~(CountyRequired \subseteq Columns(d))
    THEN Answer("returned", "", EmptyCountyStats, d)
    ELSE Answer("returned", "",
                CountyAggregates(d, "facility_name", "sector_name"), d)

IndustryKeys == {"by_sector", "sector_by_county", "subsector_analysis"}

EmptyFrame == [k \in {} |-> 0]

EmptyIndustryStats == [s \in IndustryKeys |-> EmptyFrame]

\* groupby(key)["emissions"].agg(["sum", "mean", "count"])
Agg(d, key) ==
    LET keys == KeyColumn(d, key) IN
    [k \in GroupKeys(keys) |->
        [sum   |-> Sum(d["emissions"], GroupRows(keys, k)),
         mean  |-> Mean(d["emissions"], GroupRows(keys, k)),
         count |-> Count(d["emissions"], GroupRows(keys, k))]]

\* summed emissions by (index, columns), absent combinations filled with 0
Pivot(d, index, columns) ==
    LET rk == KeyColumn(d, index)
        ck == KeyColumn(d, columns)
        both == {i \in 1..NRows(d) : rk[i].k # "nan" /\ ck[i].k # "nan"}
    IN  [r \in {rk[i].v : i \in both} |->
            [c \in {ck[i].v : i \in both} |->
                Sum(d["emissions"], {i \in both : rk[i].v = r /\ ck[i].v = c})]]

\* one of the conditional entries of the dict asks for a column the table lacks
IndustryRaises(d) ==
    /\ "sector_name" \in Columns(d)
    /\ "emissions" \notin Columns(d)

IndustryAnalysis(d) ==
    IF IsEmpty(d) THEN Answer("returned", "", EmptyIndustryStats, d)
    ELSE IF IndustryRaises(d) THEN Answer("returned", "", EmptyIndustryStats, d)
    ELSE Answer("returned", "",
           [by_sector |->
                IF "sector_name" \in Columns(d) THEN Agg(d, "sector_name")
                ELSE EmptyFrame,
            sector_by_county |->
                IF {"county", "sector_name"} \subseteq Columns(d)
                THEN Pivot(d, "county", "sector_name")
                ELSE EmptyFrame,
            subsector_analysis |->
                IF {"sector_name", "subsector_name"} \subseteq Columns(d)
                THEN Pivot(d, "sector_name", "subsector_name")
                ELSE EmptyFrame],
           d)

TemporalKeys == {"monthly_trend", "seasonal_pattern", "year_over_year"}

\* the month, the calendar month and the year of each row's date
PeriodKey(d) == [i \in 1..NRows(d) |->
                   IF d["date"].vals[i].k = "ts"
                   THEN Cell("num", d["date"].vals[i].v) ELSE Cell("nan", 0)]

MonthKey(d) == [i \in 1..NRows(d) |->
                  IF d["date"].vals[i].k = "ts"
                  THEN Cell("num", MonthOf(d["date"].vals[i].v)) ELSE Cell("nan", 0)]

YearKey(d) == [i \in 1..NRows(d) |->
                 IF d["date"].vals[i].k = "ts"
                 THEN Cell("num", YearOf(d["date"].vals[i].v)) ELSE Cell("nan", 0)]

\* no guard and no try: a missing column is a KeyError, a date column that
\* holds no timestamps has no .dt
TemporalAnalysis(d) ==
    IF "date" \notin Columns(d) THEN Answer("raised", "KeyError", EmptySeries, d)
    ELSE IF d["date"].dtype # "datetime64"
    THEN Answer("raised", "AttributeError", EmptySeries, d)
    ELSE IF "emissions" \notin Columns(d)
    THEN Answer("raised", "KeyError", EmptySeries, d)
    ELSE Answer("returned", "",
           [monthly_trend    |-> GroupBySum(PeriodKey(d), d["emissions"]),
            seasonal_pattern |-> GroupByMean(MonthKey(d), d["emissions"]),
            year_over_year   |-> GroupBySum(YearKey(d), d["emissions"])],
           d)

-----------------------------------------------------------------------------
(* main.analyze_state_emissions *)

StateCodes == {"NJ", "ZZ"}

Years == {0, 2023}

\* the parameters DataIngestion.__init__ takes, and what an instance offers
IngestionParameters == {"raw_data_path"}

IngestionAttributes ==
    {"raw_data_path", "validator", "logger", "_setup_logging", "read_file",
     "read_and_validate_all_files", "list_available_files"}

\* (None, None), and the CSV files of the output directory
NoneNone ==
    [df_none |-> TRUE, df |-> EmptyTable, stats_none |-> TRUE, stats |-> EmptySeries,
     csv |-> {}]

Pair(table, stats, csv) ==
    [df_none |-> FALSE, df |-> table, stats_none |-> FALSE, stats |-> stats,
     csv |-> csv]

\* the three statistics methods return a dict each
StatType == [county_stats |-> "dict", industry_stats |-> "dict", temporal_stats |-> "dict"]

CsvName ==
    [county_stats |-> "county_stats.csv", industry_stats |-> "industry_stats.csv",
     temporal_stats |-> "temporal_stats.csv"]

\* the loop that saves a statistic when it is a DataFrame or a Series
CsvWritten(stats) ==
    {CsvName[name] : name \in {n \in DOMAIN stats : StatType[n] \in {"DataFrame", "Series"}}}

\* create_visualization_suite: the map and the industry plot catch their
\* errors, the temporal and the facility plots do not
VisualizationRaises(d) ==
    \/ TemporalAnalysis(d).kind = "raised"
    \/ ~({"county", "facility", "emissions"} \subseteq Columns(d))

\* the body of the try block with `fetched` standing for what read_data
\* gives; whatever is raised inside is caught and turned into (None, None)
AnalyzeStateEmissions(state_code, year, fetched) ==
    LET kwargs == {"source", "state_code", "year"} IN
    IF ~(kwargs \subseteq IngestionParameters) THEN NoneNone
    ELSE IF "source" \notin IngestionAttributes THEN NoneNone
    ELSE IF "read_data" \notin IngestionAttributes THEN NoneNone
    ELSE IF IsEmpty(fetched)
    THEN Pair(fetched, [county_stats |-> EmptySeries, industry_stats |-> EmptySeries,
                        temporal_stats |-> EmptySeries], {})
    ELSE LET c == CountyStatistics(fetched)
             i == IndustryAnalysis(c.df)
             t == TemporalAnalysis(i.df)
             stats == [county_stats |-> c.value, industry_stats |-> i.value,
                       temporal_stats |-> t.value]
         IN  IF t.kind = "raised" THEN NoneNone
             ELSE IF VisualizationRaises(t.df) THEN NoneNone
             ELSE Pair(t.df, stats, CsvWritten(stats))

-----------------------------------------------------------------------------
(* The calls a user of RegionalAnalysis and of main makes *)

NoReturn == [called |-> FALSE, out |-> NoneNone]

CountyStatisticsCall ==
    /\ csCalls < MaxCalls
    /\ LET r == CountyStatistics(adf) IN
       /\ county' = [kind |-> r.kind, exc |-> r.exc, value |-> r.value]
       /\ adf' = r.df
    /\ csCalls' = csCalls + 1
    /\ UNCHANGED <<rawdf, normalized, column_mapping, industry, temporal, ret>>

IndustryAnalysisCall ==
    /\ LET r == IndustryAnalysis(adf) IN
       /\ industry' = [kind |-> r.kind, exc |-> r.exc, value |-> r.value]
       /\ adf' = r.df
    /\ UNCHANGED <<rawdf, normalized, column_mapping, county, csCalls, temporal, ret>>

TemporalAnalysisCall ==
    /\ LET r == TemporalAnalysis(adf) IN
       /\ temporal' = [kind |-> r.kind, exc |-> r.exc, value |-> r.value]
       /\ adf' = r.df
    /\ UNCHANGED <<rawdf, normalized, column_mapping, county, csCalls, industry, ret>>

\* the remote source is taken to deliver the table the analysis was built on
AnalyzeStateEmissionsCall ==
    /\ \E state_code \in StateCodes, year \in Years :
          ret' = [called |-> TRUE, out |-> AnalyzeStateEmissions(state_code, year, adf)]
    /\ UNCHANGED <<rawdf, normalized, adf, column_mapping,
                   county, csCalls, industry, temporal>>

NoAnalysis ==
    /\ rawdf = EmptyTable
    /\ normalized = FALSE
    /\ adf = EmptyTable
    /\ column_mapping = EmptySeries
    /\ county = [kind |-> "none", exc |-> "", value |-> EmptySeries]
    /\ csCalls = 0
    /\ industry = [kind |-> "none", exc |-> "", value |-> EmptySeries]
    /\ temporal = [kind |-> "none", exc |-> "", value |-> EmptySeries]
    /\ ret = NoReturn

NoIngestion ==
    /\ dir = <<>>
    /\ rf = NoRead
    /\ ra = NoReadAll

-----------------------------------------------------------------------------
(* Tables handed to preprocess_data *)

MaxPreRows == 2

\* a string is a name and the way it is written: name * 10 + form, with
\* form 0 upper case and trimmed, 1 lower case, 2 padded with blanks,
\* 3 lower case and padded
Str(name, form) == Cell("str", name * 10 + form)

\* str.upper() and str.strip() on such a string
StrUpper(cell) ==
    IF cell.k = "str" /\ cell.v % 10 \in {1, 3} THEN Cell("str", cell.v - 1) ELSE cell

StrStrip(cell) ==
    IF cell.k = "str" /\ cell.v % 10 \in {2, 3} THEN Cell("str", cell.v - 2) ELSE cell

\* one record of the remote table together with the canonical fields a
\* caller may already have filled in
PreRow(form, amount, year) ==
    [county        |-> Str(1, form),
     co2e_emission |-> Cell("num", amount),
     emissions     |-> Cell("num", amount + 1),
     facility_name |-> Str(2, 0),
     facility      |-> Str(3, 0),
     sector_name   |-> Str(4, 0),
     industry      |-> Str(5, 0),
     year          |-> Cell("num", year),
     date          |-> Cell("ts", YearStart(year) + 5)]

PreRows == {PreRow(f, a, y) : f \in {0, 1, 2}, a \in {10, 20}, y \in {2022, 2023}}

RawNames == {"co2e_emission", "facility_name", "sector_name"}

CanonicalNames == {"emissions", "facility", "industry"}

PreColumnSets ==
    {{"county"} \cup names \cup times :
        names \in {RawNames, CanonicalNames, RawNames \cup CanonicalNames},
        times \in {{"year"}, {"date"}, {"year", "date"}}}

PreTableOf(rows, cols) ==
    [c \in cols |->
        [dtype |-> ColumnDtype(c),
         vals  |-> [i \in 1..Len(rows) |-> rows[i][c]]]]

PreTables ==
    {PreTableOf(x[1], x[2]) :
        x \in (UNION {SeqsOfLen(PreRows, n) : n \in 0..MaxPreRows}) \X PreColumnSets}

\* the caller's table object after the call: a rename makes a copy, and so
\* do drop_duplicates and sort_values; without a rename the conversions and
\* the added columns are written into the caller's table
PreprocessLeaves(d) ==
    IF IsEmpty(d) THEN d
    ELSE IF RenameFrom(1, d) # d THEN d
    ELSE LET numeric == NumericFrom(1, d) IN
         IF numeric.raised THEN numeric.df
         ELSE AddDate(AddSectorFull(numeric.df))

-----------------------------------------------------------------------------
(* visualizations.plots.create_emissions_plots *)

FigureNames == <<"time_series", "monthly_dist", "annual_trend", "rolling_avg">>

OutputDirs == {"", "plots"}

\* the input validation with the columns looked at before the emptiness
PlotChecksColumnsFirst(d) ==
    IF ~({"date", "emissions"} \subseteq Columns(d))
    THEN "DataFrame must contain 'date' and 'emissions' columns"
    ELSE IF IsEmpty(d) THEN "Cannot create plots from empty DataFrame"
    ELSE IF NRows(d) < 2 THEN "DataFrame must contain at least 2 rows of data"
    ELSE ""

\* the input validation: the message of the ValueError, "" when none is raised
PlotChecks(d) ==
    IF IsEmpty(d) THEN "Cannot create plots from empty DataFrame"
    ELSE IF ~({"date", "emissions"} \subseteq Columns(d))
    THEN "DataFrame must contain 'date' and 'emissions' columns"
    ELSE IF NRows(d) < 2 THEN "DataFrame must contain at least 2 rows of data"
    ELSE ""

PlotOutcome(kind, exc, created, figures, files) ==
    [kind |-> kind, exc |-> exc, created |-> created, figures |-> figures,
     files |-> files]

\* pd.to_datetime on the copy's date column raises on text that is no date
ToDatetimeRaises(d) == AsTypeRaises(d["date"], "datetime64")

\* an emissions column that is not numeric may stop the plotting part way
\* through: after how many figures depends on the plotting libraries
MayStopAfter(d) ==
    IF d["emissions"].dtype = "object" THEN 1..Len(FigureNames) ELSE {}

MustStop(d) ==
    /\ d["emissions"].dtype = "object"
    /\ \E i \in 1..NRows(d) : d["emissions"].vals[i].k = "bad"

PngFiles(output_dir) ==
    IF output_dir = "" THEN {}
    ELSE {<<output_dir, FigureNames[i]>> : i \in 1..Len(FigureNames)}

\* the outcomes of create_emissions_plots(d, output_dir)
CreateEmissionsPlots(d, output_dir) ==
    IF PlotChecks(d) # ""
    THEN {PlotOutcome("raised", Exc("ValueError", PlotChecks(d)), 0, {}, {})}
    ELSE IF ToDatetimeRaises(d)
    THEN {PlotOutcome("raised", Exc("ValueError", "Unknown datetime string format"),
                      0, {}, {})}
    ELSE {PlotOutcome("raised", Exc("TypeError", ""), n,
                      {FigureNames[i] : i \in 1..(n - 1)}, {}) : n \in MayStopAfter(d)}
         \cup (IF MustStop(d) THEN {}
               ELSE {PlotOutcome("returned", NoExc, Len(FigureNames),
                                 {FigureNames[i] : i \in 1..Len(FigureNames)},
                                 PngFiles(output_dir))})

NoPlots ==
    /\ gdf = EmptyTable
    /\ gdf0 = EmptyTable
    /\ gout = [called |-> FALSE, output_dir |-> "",
               out |-> PlotOutcome("none", NoExc, 0, {}, {})]

\* the checks read the caller's table, everything after works on a copy
CreateEmissionsPlotsCall ==
    /\ ~gout.called
    /\ \E output_dir \in OutputDirs :
          \E o \in CreateEmissionsPlots(gdf, output_dir) :
              gout' = [called |-> TRUE, output_dir |-> output_dir, out |-> o]
    /\ UNCHANGED <<gdf, gdf0>>

-----------------------------------------------------------------------------
(* EPADataSource._cleanup_batch_files *)

MaxPaths == 3
MaxBatchFiles == 2

Paths == 1..MaxPaths

CleanupOutcome(raised, files, attempted, warnings) ==
    [raised |-> raised, disk |-> files, attempted |-> attempted, warnings |-> warnings]

\* the loop from file i on: exists, then unlink; a failed unlink is logged
RECURSIVE CleanupFrom(_, _, _, _)
CleanupFrom(files, lock, list, i) ==
    IF i > Len(list) THEN CleanupOutcome(FALSE, files, <<>>, <<>>)
    ELSE LET f == list[i] IN
         IF f \notin files THEN CleanupFrom(files, lock, list, i + 1)
         ELSE IF f \in lock
         THEN LET rest == CleanupFrom(files, lock, list, i + 1) IN
              CleanupOutcome(rest.raised, rest.disk, <<f>> \o rest.attempted,
                             <<f>> \o rest.warnings)
         ELSE LET rest == CleanupFrom(files \ {f}, lock, list, i + 1) IN
              CleanupOutcome(rest.raised, rest.disk, <<f>> \o rest.attempted,
                             rest.warnings)

\* the same loop with the try around the whole loop: the first failed
\* unlink ends it
RECURSIVE CleanupUntilFailure(_, _, _, _)
CleanupUntilFailure(files, lock, list, i) ==
    IF i > Len(list) THEN CleanupOutcome(FALSE, files, <<>>, <<>>)
    ELSE LET f == list[i] IN
         IF f \notin files THEN CleanupUntilFailure(files, lock, list, i + 1)
         ELSE IF f \in lock
         THEN CleanupOutcome(FALSE, files, <<f>>, <<f>>)
         ELSE LET rest == CleanupUntilFailure(files \ {f}, lock, list, i + 1) IN
              CleanupOutcome(rest.raised, rest.disk, <<f>> \o rest.attempted,
                             rest.warnings)

CleanupBatchFilesOnce(files, lock, list) == CleanupUntilFailure(files, lock, list, 1)

CleanupBatchFiles(files, lock, list) == CleanupFrom(files, lock, list, 1)

NoCleanup ==
    /\ disk = {}
    /\ locked = {}
    /\ batch_files = <<>>
    /\ cout = [called |-> FALSE, raised |-> FALSE, attempted |-> <<>>, warnings |-> <<>>]

CleanupBatchFilesCall ==
    /\ ~cout.called
    /\ LET r == CleanupBatchFiles(disk, locked, batch_files) IN
       /\ cout' = [called |-> TRUE, raised |-> r.raised, attempted |-> r.attempted,
                   warnings |-> r.warnings]
       /\ disk' = r.disk
    /\ UNCHANGED <<locked, batch_files>>

NoPreprocess ==
    /\ pin = EmptyTable
    /\ pin0 = EmptyTable
    /\ pout = [called |-> FALSE, raised |-> FALSE, df |-> EmptyTable]

NoLate == NoPreprocess /\ NoPlots /\ NoCleanup

Preprocess ==
    /\ ~pout.called
    /\ LET r == PreprocessData(pin) IN
       pout' = [called |-> TRUE, raised |-> r.raised,
                df |-> IF r.raised THEN EmptyTable ELSE r.df]
    /\ pin' = PreprocessLeaves(pin)
    /\ UNCHANGED pin0

-----------------------------------------------------------------------------
(* Fetching all records: pages of batchSize from offset 0, each through    *)
(* fetch_data, until a page comes back short or empty; the batches are     *)
(* concatenated and handed to preprocess_data as DataSource.get_data does. *)

Finish(batches) ==
    LET p == PreprocessData(batches) IN
    IF p.raised
    THEN /\ fpc' = "failed"
         /\ result' = EmptyTable
    ELSE /\ fpc' = "done"
         /\ result' = p.df

FetchPage ==
    /\ fpc = "paging"
    /\ \E resp \in Responses, discovered \in BOOLEAN :
        LET page == Page(remote, offset, batchSize)
            out  == FetchData(resp, page)
        IN  /\ requests' = Append(requests,
                    [offset |-> offset, limit |-> batchSize, resp |-> resp])
            /\ last' = [kind |-> out.kind, table |-> out.table,
                        discovered |-> discovered,
                        wire |-> Wire(resp, page, offset, batchSize)]
            /\ IF out.kind = "raised"
               THEN /\ fpc' = "failed"
                    /\ result' = EmptyTable
                    /\ UNCHANGED <<offset, received>>
               ELSE IF IsEmpty(out.table)
               THEN /\ Finish(received)
                    /\ UNCHANGED <<offset, received>>
               ELSE /\ received' = Concat(received, out.table)
                    /\ IF NRows(out.table) < batchSize
                       THEN /\ Finish(received')
                            /\ UNCHANGED offset
                       ELSE /\ offset' = offset + batchSize
                            /\ UNCHANGED <<fpc, result>>
    /\ UNCHANGED <<remote, batchSize>>

NoFetch == [kind |-> "none", table |-> EmptyTable, discovered |-> FALSE,
            wire |-> <<>>]

InitF ==
    /\ remote \in Remotes
    /\ batchSize \in 1..MaxBatch
    /\ offset = 0
    /\ received = EmptyTable
    /\ requests = <<>>
    /\ last = NoFetch
    /\ result = EmptyTable
    /\ fpc = "paging"
    /\ df = EmptyTable
    /\ df0 = EmptyTable
    /\ outcome = [raised |-> FALSE, issues |-> NoIssues]
    /\ calls = 0
    /\ NoIngestion
    /\ NoAnalysis
    /\ NoLate

NextF == FetchPage /\ UNCHANGED <<vvars, ivars, rvars, lvars>>

SpecF == InitF /\ [][NextF]_vars

-----------------------------------------------------------------------------
(* Validator specification: a caller builds a table and validates it *)

InitV ==
    /\ df \in Tables
    /\ df0 = df
    /\ outcome = [raised |-> FALSE, issues |-> NoIssues]
    /\ calls = 0
    /\ remote = <<>>
    /\ batchSize = 1
    /\ offset = 0
    /\ received = EmptyTable
    /\ requests = <<>>
    /\ last = NoFetch
    /\ result = EmptyTable
    /\ fpc = "idle"
    /\ NoIngestion
    /\ NoAnalysis
    /\ NoLate

Validate ==
    /\ calls < MaxCalls
    /\ LET r == ValidateDataframe(df) IN
       /\ outcome' = [raised |-> r.raised, issues |-> r.issues]
       /\ df' = r.df
    /\ calls' = calls + 1
    /\ UNCHANGED df0

NextV == Validate /\ UNCHANGED <<fvars, ivars, rvars, lvars>>

SpecV == InitV /\ [][NextV]_vars

-----------------------------------------------------------------------------
(* Ingestion specification *)

InitI ==
    /\ dir \in Directories
    /\ rf = NoRead
    /\ ra = NoReadAll
    /\ df = EmptyTable
    /\ df0 = EmptyTable
    /\ outcome = [raised |-> FALSE, issues |-> NoIssues]
    /\ calls = 0
    /\ remote = <<>>
    /\ batchSize = 1
    /\ offset = 0
    /\ received = EmptyTable
    /\ requests = <<>>
    /\ last = NoFetch
    /\ result = EmptyTable
    /\ fpc = "idle"
    /\ NoAnalysis
    /\ NoLate

NextI ==
    \/ ReadFileCall /\ UNCHANGED <<vvars, fvars, rvars, lvars>>
    \/ ReadAllCall /\ UNCHANGED <<vvars, fvars, rvars, lvars>>

SpecI == InitI /\ [][NextI]_vars

-----------------------------------------------------------------------------
(* Regional analysis specification *)

InitR ==
    /\ rawdf \in AnalysisTables
    /\ normalized \in BOOLEAN
    /\ normalized => ~PreprocessData(rawdf).raised
    /\ adf = IF normalized THEN PreprocessData(rawdf).df ELSE rawdf
    /\ column_mapping = ColumnMappingOf(adf)
    /\ county = [kind |-> "none", exc |-> "", value |-> EmptySeries]
    /\ csCalls = 0
    /\ industry = [kind |-> "none", exc |-> "", value |-> EmptySeries]
    /\ temporal = [kind |-> "none", exc |-> "", value |-> EmptySeries]
    /\ ret = NoReturn
    /\ NoIngestion
    /\ df = EmptyTable
    /\ df0 = EmptyTable
    /\ outcome = [raised |-> FALSE, issues |-> NoIssues]
    /\ calls = 0
    /\ remote = <<>>
    /\ batchSize = 1
    /\ offset = 0
    /\ received = EmptyTable
    /\ requests = <<>>
    /\ last = NoFetch
    /\ result = EmptyTable
    /\ fpc = "idle"
    /\ NoLate

NextR ==
    \/ CountyStatisticsCall /\ UNCHANGED <<vvars, fvars, ivars, lvars>>
    \/ IndustryAnalysisCall /\ UNCHANGED <<vvars, fvars, ivars, lvars>>
    \/ TemporalAnalysisCall /\ UNCHANGED <<vvars, fvars, ivars, lvars>>
    \/ AnalyzeStateEmissionsCall /\ UNCHANGED <<vvars, fvars, ivars, lvars>>

SpecR == InitR /\ [][NextR]_vars

-----------------------------------------------------------------------------
(* Properties of validate_dataframe, checked under SpecV *)

Called == calls > 0

Report == outcome.issues

HasRequired(d) == \A i \in 1..Len(RequiredColumns) : RequiredColumns[i] \in Columns(d)

Absent(d) == {RequiredColumns[i] : i \in 1..Len(RequiredColumns)} \ Columns(d)

Mentions(entries, col) == \E i \in 1..Len(entries) : entries[i].col = col

HasMessage(entries, msg) == \E i \in 1..Len(entries) : entries[i].msg = msg

AllNumeric(col) == \A i \in 1..Len(col.vals) : col.vals[i].k = "num"

InRange(cell) == EmissionsMin <= cell.v /\ cell.v <= EmissionsMax

\* C1: a table that lacks a required column gets a report that names each
\* absent required column exactly once under missing_columns and has the
\* three other categories empty.
C1_MissingColumnsOnly ==
    (Called /\ ~HasRequired(df0)) =>
        /\ ~outcome.raised
        /\ Len(Report.missing_columns) = Cardinality(Absent(df0))
        /\ \A c \in Absent(df0) :
              \E i \in 1..Len(Report.missing_columns) :
                 Report.missing_columns[i] = Issue("Missing required column", c)
        /\ Report.type_errors = <<>>
        /\ Report.value_errors = <<>>
        /\ Report.date_errors = <<>>

C1_Witness ==
    /\ Called
    /\ Absent(df0) = {"date", "emissions"}
    /\ Len(Report.missing_columns) = 2

\* C2: with both required columns present validate_dataframe never raises,
\* and an emissions column that cannot be coerced to float shows up as a
\* type_errors entry that mentions emissions.
C2_NeverRaises ==
    (Called /\ HasRequired(df0)) =>
        /\ ~outcome.raised
        /\ AsTypeRaises(df0["emissions"], "float64") =>
              Mentions(Report.type_errors, "emissions")

\* C3: with an all-numeric emissions column, value_errors is empty when
\* every value lies in [0, 1e9] and holds exactly one entry, about
\* emissions, when some value lies outside.
C3_RangeCheck ==
    (Called /\ HasRequired(df0) /\ AllNumeric(df0["emissions"])) =>
        /\ ~outcome.raised
        /\ IF \A i \in 1..NRows(df0) : InRange(df0["emissions"].vals[i])
           THEN Report.value_errors = <<>>
           ELSE /\ Len(Report.value_errors) = 1
                /\ Report.value_errors[1].col = "emissions"

C3_Witness ==
    /\ Called
    /\ HasRequired(df0)
    /\ NRows(df0) = 2
    /\ df0["emissions"].vals[1].v < EmissionsMin
    /\ df0["emissions"].vals[2].v > EmissionsMax
    /\ Len(Report.value_errors) = 1

\* C4: with both required columns present, a parseable date column gets a
\* date_errors entry exactly when one of its dates is later than now, and
\* an unparseable one gets an "Invalid date format" entry.
C4_DateErrors ==
    (Called /\ HasRequired(df0)) =>
        /\ ~outcome.raised
        /\ IF AsTypeRaises(df0["date"], "datetime64")
           THEN HasMessage(Report.date_errors, "Invalid date format")
           ELSE (Report.date_errors # <<>>) <=> FutureDates(df0["date"])

\* C5: after validate_dataframe the caller's table holds the same values
\* with the same types as before the call.
C5_TableUnchanged == Called => df = df0

\* C6: with both required columns present every check runs, so each kind of
\* problem in the table has an entry in its category of the one report.
C6_AllCategories ==
    (Called /\ HasRequired(df0)) =>
        /\ ~outcome.raised
        /\ AsTypeRaises(df0["emissions"], "float64") =>
              Mentions(Report.type_errors, "emissions")
        /\ (\E i \in 1..NRows(df0) :
               /\ df0["emissions"].vals[i].k \in {"num", "numstr"}
               /\ ~InRange(df0["emissions"].vals[i])) =>
              Mentions(Report.value_errors, "emissions")
        /\ (AsTypeRaises(df0["date"], "datetime64") \/ FutureDates(df0["date"])) =>
              Report.date_errors # <<>>

AliasOnly(d) ==
    /\ "co2e_emission" \in Columns(d)
    /\ "emissions" \notin Columns(d)
    /\ "date" \in Columns(d)

\* C7 as claimed: a table that carries co2e_emission in place of emissions
\* gets no missing_columns entry for emissions.
C7_AliasAccepted ==
    (Called /\ AliasOnly(df0)) => ~Mentions(Report.missing_columns, "emissions")

\* C7 as amended: only the canonical name counts, so a table that carries
\* co2e_emission in place of emissions is reported as missing emissions,
\* and nothing else is checked.
C7_CanonicalNameOnly ==
    (Called /\ AliasOnly(df0)) =>
        /\ ~outcome.raised
        /\ Report = [NoIssues EXCEPT !.missing_columns =
                        <<Issue("Missing required column", "emissions")>>]

C7_Witness ==
    /\ Called
    /\ AliasOnly(df0)
    /\ NRows(df0) > 0
    /\ Mentions(Report.missing_columns, "emissions")

-----------------------------------------------------------------------------
(* Properties of the remote fetch, checked under SpecF *)

Sent == requests # <<>>

LastRequest == requests[Len(requests)]

\* every request so far was answered with status 200, no errors field and
\* the array of the page asked for
Faithful ==
    \A i \in 1..Len(requests) :
        /\ requests[i].resp.transport = "ok"
        /\ requests[i].resp.status = 200
        /\ ~requests[i].resp.errors
        /\ requests[i].resp.shape = "table"

OffsetsAdvance ==
    /\ \A i \in 1..Len(requests) :
          /\ requests[i].offset = (i - 1) * batchSize
          /\ requests[i].limit = batchSize
    /\ Len(requests) = (Len(remote) \div batchSize) + 1

\* a row of the normalized table holds the values of a raw record
SameRecord(row, rec) ==
    /\ row["year"].v = rec["year"].v
    /\ row["emissions"].v = rec["co2e_emission"].v
    /\ row["facility"].v = rec["facility_name"].v

C9_TableOnlySuccess ==
    Sent =>
        LET r == LastRequest.resp IN
        /\ (r.transport # "ok" \/ r.status # 200 \/ r.errors) =>
              /\ last.kind = "raised"
              /\ last.table = EmptyTable
              /\ fpc = "failed"
              /\ result = EmptyTable
              /\ NRows(received) = LastRequest.offset
        /\ last.kind = "table" =>
              (r.transport = "ok" /\ r.status = 200 /\ ~r.errors)

C9_Witness ==
    /\ Sent
    /\ LastRequest.resp.status = 200
    /\ LastRequest.resp.errors
    /\ LastRequest.resp.shape = "table"
    /\ Page(remote, LastRequest.offset, LastRequest.limit) # <<>>
    /\ LastRequest.offset > 0
    /\ last.kind = "raised"

\* C10: a status-200 response without an errors field whose array is absent
\* or empty makes fetch_data return an empty table and raise nothing.
C10_EmptyIsNoError ==
    Sent =>
        LET r == LastRequest.resp IN
        (/\ r.transport = "ok"
         /\ r.status = 200
         /\ ~r.errors
         /\ \/ r.shape # "table"
            \/ Page(remote, LastRequest.offset, LastRequest.limit) = <<>>) =>
            /\ last.kind = "table"
            /\ last.table = EmptyTable

-----------------------------------------------------------------------------
(* Preprocessing specification: a caller normalises a table *)

NoValidation ==
    /\ df = EmptyTable
    /\ df0 = EmptyTable
    /\ outcome = [raised |-> FALSE, issues |-> NoIssues]
    /\ calls = 0

NoRemote ==
    /\ remote = <<>>
    /\ batchSize = 1
    /\ offset = 0
    /\ received = EmptyTable
    /\ requests = <<>>
    /\ last = NoFetch
    /\ result = EmptyTable
    /\ fpc = "idle"

InitP ==
    /\ pin \in PreTables
    /\ pin0 = pin
    /\ pout = [called |-> FALSE, raised |-> FALSE, df |-> EmptyTable]
    /\ NoValidation
    /\ NoRemote
    /\ NoIngestion
    /\ NoAnalysis
    /\ NoPlots
    /\ NoCleanup

NextP == Preprocess /\ UNCHANGED <<vvars, fvars, ivars, rvars, gvars, cvars>>

SpecP == InitP /\ [][NextP]_vars

-----------------------------------------------------------------------------
(* Plotting specification: a caller asks for the plots of a table *)

InitG ==
    /\ gdf \in Tables
    /\ gdf0 = gdf
    /\ gout = [called |-> FALSE, output_dir |-> "",
               out |-> PlotOutcome("none", NoExc, 0, {}, {})]
    /\ NoValidation
    /\ NoRemote
    /\ NoIngestion
    /\ NoAnalysis
    /\ NoPreprocess
    /\ NoCleanup

NextG == CreateEmissionsPlotsCall /\ UNCHANGED <<vvars, fvars, ivars, rvars, pvars, cvars>>

SpecG == InitG /\ [][NextG]_vars

-----------------------------------------------------------------------------
(* Cleanup specification: the scratch files of a fetch are deleted *)

InitC ==
    /\ disk \in SUBSET Paths
    /\ locked \in SUBSET disk
    /\ batch_files \in UNION {SeqsOfLen(Paths, n) : n \in 0..MaxBatchFiles}
    /\ cout = [called |-> FALSE, raised |-> FALSE, attempted |-> <<>>, warnings |-> <<>>]
    /\ NoValidation
    /\ NoRemote
    /\ NoIngestion
    /\ NoAnalysis
    /\ NoPreprocess
    /\ NoPlots

NextC == CleanupBatchFilesCall /\ UNCHANGED <<vvars, fvars, ivars, rvars, pvars, gvars>>

SpecC == InitC /\ [][NextC]_vars

-----------------------------------------------------------------------------
(* Claims about DataIngestion *)

SupportedSuffix == rf.name.suffix \in {".csv", ".xlsx", ".xls"}

\* the last read_file call named a file that exists and decodes to a table
Readable ==
    /\ rf.called
    /\ SupportedSuffix
    /\ Exists(dir, rf.name)
    /\ dir[rf.name.stem].content.kind = "table"

ContentOf == dir[rf.name.stem].content.table

ReportOf == ValidateDataframe(ContentOf)

OnlyValueErrors(issues) ==
    /\ issues["value_errors"] # <<>>
    /\ \A cat \in DOMAIN issues \ {"value_errors"} : issues[cat] = <<>>

ValidationFailed(out) ==
    /\ out.kind = "raised"
    /\ out.exc = Exc("ValueError", "Data validation failed")
    /\ out.table = EmptyTable

RangeErrorOnly ==
    /\ Readable
    /\ rf.validate
    /\ ~ReportOf.raised
    /\ OnlyValueErrors(ReportOf.issues)

\* C11 as stated: read_file with validation on, on a file whose only
\* validation issue is a value_errors entry, returns the table
C11_RangeErrorReturnsTable ==
    RangeErrorOnly => rf.out.kind = "returned" /\ rf.out.table = ReportOf.df

\* C11 amended: read_file with validation on returns the table only when
\* every category of the report is empty; a value_errors entry alone makes
\* it raise ValueError "Data validation failed" and return no table
C11_RangeErrorBlocks ==
    /\ RangeErrorOnly => ValidationFailed(rf.out)
    /\ (Readable /\ rf.validate /\ rf.out.kind = "returned") =>
           \A cat \in DOMAIN ReportOf.issues : ReportOf.issues[cat] = <<>>

C11_Witness == RangeErrorOnly /\ ValidationFailed(rf.out)

LacksRequired ==
    /\ Readable
    /\ rf.validate
    /\ ~({"date", "emissions"} \subseteq Columns(ContentOf))

\* C12: read_file with validation on, on a readable file that lacks date
\* or emissions, raises a validation error and returns no table
C12_MissingColumnRaises == LacksRequired => ValidationFailed(rf.out)

C12_Witness ==
    /\ LacksRequired
    /\ Columns(ContentOf) = {"date"}
    /\ ValidationFailed(rf.out)

\* file i of the directory is eligible, reads, and validates with an empty report
Passes(d, i) ==
    /\ d[i].suffix \in {".csv", ".xlsx", ".xls"}
    /\ d[i].content.kind = "table"
    /\ ~ValidateDataframe(d[i].content.table).raised
    /\ \A cat \in DOMAIN NoIssues :
           ValidateDataframe(d[i].content.table).issues[cat] = <<>>

\* C13: read_and_validate_all_files returns exactly the eligible files that
\* pass validation, each mapped to its table; a file that fails to read or
\* to validate is skipped and never aborts the batch
C13_BatchSkipsFailures ==
    ra.kind # "none" =>
        /\ ra.kind = "returned"
        /\ DOMAIN ra.files = {NameAt(dir, i) : i \in {j \in 1..Len(dir) : Passes(dir, j)}}
        /\ \A n \in DOMAIN ra.files :
               ra.files[n] = ValidateDataframe(dir[n.stem].content.table).df

\* C14: read_file raises ValueError "Unsupported file format" for every
\* suffix other than .csv, .xlsx, .xls before the file is opened, whether
\* or not the file exists and whatever the validate flag; a missing file
\* with a supported suffix raises FileNotFoundError
C14_UnsupportedSuffix ==
    rf.called =>
        /\ ~SupportedSuffix =>
              /\ rf.out.kind = "raised"
              /\ rf.out.exc = Exc("ValueError", "Unsupported file format")
              /\ ~rf.out.opened
        /\ (SupportedSuffix /\ ~Exists(dir, rf.name)) =>
              /\ rf.out.kind = "raised"
              /\ rf.out.exc.cls = "FileNotFoundError"

C14_Witness ==
    /\ rf.called
    /\ rf.name.suffix = ".txt"
    /\ ~Exists(dir, rf.name)
    /\ ~rf.validate
    /\ rf.out.exc = Exc("ValueError", "Unsupported file format")

-----------------------------------------------------------------------------
(* Claims about main and RegionalAnalysis *)

StatsKeys == {"county_stats", "industry_stats", "temporal_stats"}

\* C15: analyze_state_emissions creates an ingestion for the remote source
\* and, when the fetch delivers a non-empty table, returns that table with
\* statistics for county_stats, industry_stats and temporal_stats
C15_RemoteIngestion ==
    (ret.called /\ ~IsEmpty(adf)) =>
        /\ ~ret.out.df_none
        /\ ret.out.df = adf
        /\ ~ret.out.stats_none
        /\ DOMAIN ret.out.stats = StatsKeys

CountyCalled == county.kind # "none"

Has(answer, key) == answer.kind = "returned" /\ key \in DOMAIN answer.value

\* C16: for every non-empty table with county, emissions and facility
\* columns, county_statistics returns total_emissions as the per-county sum
\* of emissions and facility_count as the per-county number of distinct
\* facilities
C16_CountyTotalsAndCounts ==
    (/\ CountyCalled
     /\ ~IsEmpty(adf)
     /\ {"county", "emissions", "facility"} \subseteq Columns(adf)) =>
        /\ Has(county, "total_emissions")
        /\ Has(county, "facility_count")
        /\ county.value["total_emissions"] =
               [c \in GroupKeys(adf["county"].vals) |->
                   Sum(adf["emissions"], GroupRows(adf["county"].vals, c))]
        /\ county.value["facility_count"] =
               [c \in GroupKeys(adf["county"].vals) |->
                   NUnique(adf["facility"], GroupRows(adf["county"].vals, c))]

FetchedColumns == {FetchedLayout[f] : f \in DOMAIN FetchedLayout}

\* C17: for every non-empty fetched table (county, co2e_emission,
\* facility_name, sector_name, year), county_statistics over the output of
\* preprocess_data returns non-empty per-county totals and facility counts
C17_NormalizedTableUsable ==
    (/\ CountyCalled
     /\ normalized
     /\ ~IsEmpty(rawdf)
     /\ Columns(rawdf) = FetchedColumns) =>
        /\ Has(county, "total_emissions")
        /\ Has(county, "facility_count")
        /\ county.value["total_emissions"] # EmptySeries
        /\ county.value["facility_count"] # EmptySeries

AllKeysEmpty(answer, keys) ==
    /\ answer.kind = "returned"
    /\ DOMAIN answer.value = keys
    /\ \A k \in keys : answer.value[k] = EmptySeries

\* C19: on an empty table county_statistics, industry_analysis and
\* temporal_analysis each return every statistic key with an empty value,
\* and none raises
C19_EmptyTableHandled ==
    IsEmpty(adf) =>
        /\ CountyCalled => AllKeysEmpty(county, CountyKeys)
        /\ industry.kind # "none" => AllKeysEmpty(industry, IndustryKeys)
        /\ temporal.kind # "none" => AllKeysEmpty(temporal, TemporalKeys)

RawColumns == {RawLayout[f] : f \in DOMAIN RawLayout}

\* the columns each statistic is computed from
Needs ==
    [total_emissions        |-> {"county", "emissions"},
     avg_emissions          |-> {"county", "emissions"},
     facility_count         |-> {"county", "facility_name"},
     sector_count           |-> {"county", "sector_name"},
     emissions_per_facility |-> {"county", "emissions", "facility_name"},
     by_sector              |-> {"sector_name", "emissions"},
     sector_by_county       |-> {"county", "sector_name", "emissions"},
     subsector_analysis     |-> {"sector_name", "subsector_name", "emissions"},
     monthly_trend          |-> {"date", "emissions"},
     seasonal_pattern       |-> {"date", "emissions"},
     year_over_year         |-> {"date", "emissions"}]

PartialResult(answer, keys) ==
    /\ answer.kind = "returned"
    /\ DOMAIN answer.value = keys
    /\ \A k \in keys :
           (answer.value[k] # EmptySeries) <=> (Needs[k] \subseteq Columns(adf))

\* C20: on a non-empty table that lacks a grouping key (county, sector,
\* date) or the emissions column, each of the three analyses returns,
\* without raising, an empty value for the statistics that need the absent
\* column and a computed value for the others
C20_MissingColumnPolicy ==
    (/\ ~IsEmpty(adf)
     /\ Columns(adf) \subseteq RawColumns
     /\ ~({"county", "sector_name", "date", "emissions"} \subseteq Columns(adf))) =>
        /\ CountyCalled => PartialResult(county, CountyKeys)
        /\ industry.kind # "none" => PartialResult(industry, IndustryKeys)
        /\ temporal.kind # "none" => PartialResult(temporal, TemporalKeys)

\* county_statistics computed its aggregates on the analysis table
CountyComputed ==
    /\ CountyCalled
    /\ ~IsEmpty(adf)
    /\ CountyRequired \subseteq Columns(adf)

FacilityCount(c) == NUnique(adf["facility_name"], GroupRows(adf["county"].vals, c))

TotalEmissions(c) == Sum(adf["emissions"], GroupRows(adf["county"].vals, c))

\* C21: emissions_per_facility of a county is its total emissions divided
\* by its distinct facility count when the count is positive, and a county
\* whose count is zero has no entry or an undefined one, never a number
C21_EmissionsPerFacility ==
    CountyComputed =>
        /\ Has(county, "emissions_per_facility")
        /\ \A c \in GroupKeys(adf["county"].vals) :
              LET epf == county.value["emissions_per_facility"] IN
              IF FacilityCount(c) > 0
              THEN /\ c \in DOMAIN epf
                   /\ epf[c].k = "num"
                   /\ epf[c].num * FacilityCount(c) = TotalEmissions(c) * epf[c].den
              ELSE c \in DOMAIN epf => epf[c].k = "nan"

\* C25: an analysis run on a fetched non-empty table leaves county_stats.csv,
\* industry_stats.csv and temporal_stats.csv in the output directory
C25_CsvPerStatistic ==
    (ret.called /\ ~IsEmpty(adf)) =>
        {CsvName[n] : n \in StatsKeys} \subseteq ret.out.csv

-----------------------------------------------------------------------------
(* Claims about preprocess_data *)

Preprocessed == pout.called /\ ~pout.raised /\ ~IsEmpty(pin0)

\* the values of column c of table d, each with the county of its row
ValuesByCounty(d, c) == {<<d["county"].vals[i], d[c].vals[i]>> : i \in 1..NRows(d)}

Renamed(old, new) ==
    /\ (old \in Columns(pin0) /\ new \notin Columns(pin0)) =>
           /\ new \in Columns(pout.df)
           /\ old \notin Columns(pout.df)
           /\ ValuesByCounty(pout.df, new) = ValuesByCounty(pin0, old)
    /\ new \in Columns(pin0) =>
           /\ new \in Columns(pout.df)
           /\ ValuesByCounty(pout.df, new) = ValuesByCounty(pin0, new)
           /\ old \in Columns(pin0) =>
                  /\ old \in Columns(pout.df)
                  /\ ValuesByCounty(pout.df, old) = ValuesByCounty(pin0, old)

\* C22: for each pair co2e_emission->emissions, facility_name->facility,
\* sector_name->industry, a non-empty table with the raw column and without
\* the canonical one comes out with the canonical column holding the raw
\* column's values and without the raw column; a canonical column that is
\* already there keeps its values
C22_RenamesToCanonical ==
    Preprocessed =>
        /\ Renamed("co2e_emission", "emissions")
        /\ Renamed("facility_name", "facility")
        /\ Renamed("sector_name", "industry")

C22_Witness ==
    /\ Preprocessed
    /\ RawNames \subseteq Columns(pin0)
    /\ CanonicalNames \cap Columns(pin0) = {}
    /\ CanonicalNames \subseteq Columns(pout.df)
    /\ NRows(pout.df) = 2

\* C23: for every non-empty table with a county column, each county value
\* of preprocess_data's output is the upper-cased, trimmed form of the
\* input value
C23_CountyNormalized ==
    (Preprocessed /\ "county" \in Columns(pin0)) =>
        /\ "county" \in Columns(pout.df)
        /\ {pout.df["county"].vals[i] : i \in 1..NRows(pout.df)}
             = {StrStrip(StrUpper(pin0["county"].vals[i])) : i \in 1..NRows(pin0)}

\* C24: for a non-empty table with year and without date every output row
\* has date equal to the first day of its year; the dates of a table that
\* has a date column are left as they are
C24_DateFromYear ==
    Preprocessed =>
        /\ ("year" \in Columns(pin0) /\ "date" \notin Columns(pin0)) =>
               /\ "date" \in Columns(pout.df)
               /\ NRows(pout.df) > 0
               /\ \A i \in 1..NRows(pout.df) :
                      pout.df["date"].vals[i] =
                          Cell("ts", YearStart(pout.df["year"].vals[i].v))
        /\ "date" \in Columns(pin0) =>
               /\ "date" \in Columns(pout.df)
               /\ ValuesByCounty(pout.df, "date") = ValuesByCounty(pin0, "date")

C24_Witness ==
    /\ Preprocessed
    /\ "year" \in Columns(pin0)
    /\ "date" \notin Columns(pin0)
    /\ NRows(pout.df) = 2
    /\ pout.df["date"].vals[1] # pout.df["date"].vals[2]

-----------------------------------------------------------------------------
(* Claims about create_emissions_plots *)

Rejected(msg) ==
    /\ gout.out.kind = "raised"
    /\ gout.out.exc = Exc("ValueError", msg)
    /\ gout.out.created = 0
    /\ gout.out.figures = {}
    /\ gout.out.files = {}

HasDateAndEmissions(d) == {"date", "emissions"} \subseteq Columns(d)

\* C26: create_emissions_plots raises, before any figure or file is made,
\* the empty-table error for an empty table (even when columns are missing
\* too), else the missing-columns error, else the at-least-2-rows error;
\* only a table that passes the three checks yields the four figures
\* time_series, monthly_dist, annual_trend, rolling_avg; the caller's table
\* is not modified
C26_PlotChecksInOrder ==
    gout.called =>
        /\ IsEmpty(gdf0) => Rejected("Cannot create plots from empty DataFrame")
        /\ (~IsEmpty(gdf0) /\ ~HasDateAndEmissions(gdf0)) =>
               Rejected("DataFrame must contain 'date' and 'emissions' columns")
        /\ (~IsEmpty(gdf0) /\ HasDateAndEmissions(gdf0) /\ NRows(gdf0) < 2) =>
               Rejected("DataFrame must contain at least 2 rows of data")
        /\ gout.out.kind = "returned" =>
               /\ ~IsEmpty(gdf0) /\ HasDateAndEmissions(gdf0) /\ NRows(gdf0) >= 2
               /\ gout.out.figures = {FigureNames[i] : i \in 1..Len(FigureNames)}
               /\ Cardinality(gout.out.figures) = 4
        /\ gdf = gdf0

C26_Witness ==
    /\ gout.called
    /\ IsEmpty(gdf0)
    /\ Columns(gdf0) = {"emissions"}
    /\ Rejected("Cannot create plots from empty DataFrame")

-----------------------------------------------------------------------------
(* Claims about _cleanup_batch_files *)

Listed == {batch_files[i] : i \in 1..Len(batch_files)}

Tried == {cout.attempted[i] : i \in 1..Len(cout.attempted)}

\* C28: _cleanup_batch_files never raises, tries every listed file that
\* exists even after an earlier deletion failed, leaves no listed file whose
\* deletion succeeds, skips files that do not exist and touches no file
\* outside the list
C28_BestEffortCleanup ==
    [][cout'.called =>
          /\ ~cout'.raised
          /\ {cout'.attempted[i] : i \in 1..Len(cout'.attempted)} = Listed \cap disk
          /\ disk' = disk \ (Listed \ locked)
          /\ {cout'.warnings[i] : i \in 1..Len(cout'.warnings)} = Listed \cap locked
          /\ UNCHANGED <<locked, batch_files>>]_vars

C28_Witness ==
    /\ cout.called
    /\ Len(batch_files) = 2
    /\ batch_files[1] \in locked
    /\ batch_files[2] \in Tried
    /\ batch_files[2] \notin disk
    /\ Listed # Paths

-----------------------------------------------------------------------------
(* Claims about the requests of fetch_data *)

DataRequestsOf(w) == {i \in 1..Len(w) : w[i].kind = "data"}

DiscoveryRequestsOf(w) == {i \in 1..Len(w) : w[i].kind = "discovery"}

\* C27: each fetch_data call sends exactly one table-discovery request and
\* then at most one data request, carrying the offset and limit of the call;
\* a data request that failed is not sent again, and a discovery that failed
\* does not keep the data request from being sent
C27_NoRetry ==
    [][requests' # requests =>
          /\ Len(requests') = Len(requests) + 1
          /\ DiscoveryRequestsOf(last'.wire) = {1}
          /\ Cardinality(DataRequestsOf(last'.wire)) <= 1
          /\ \A i \in DataRequestsOf(last'.wire) :
                /\ i = 2
                /\ last'.wire[i].offset = offset
                /\ last'.wire[i].limit = batchSize
          /\ ~last'.discovered => DataRequestsOf(last'.wire) = {2}]_vars

C27_Witness ==
    /\ Len(requests) = 2
    /\ last.kind = "raised"
    /\ ~last.discovered
    /\ last.wire = <<DiscoveryRequest, DataRequest(offset, batchSize)>>
    /\ offset > 0

-----------------------------------------------------------------------------
(* Claims about validating a table again *)

ReportKeys == {"missing_columns", "type_errors", "value_errors", "date_errors"}

\* C29: a second validate_dataframe call on the same table object, right
\* after a first one, returns a report equal to the first in all four
\* categories, for every table; every report has exactly the four keys
\* missing_columns, type_errors, value_errors, date_errors
C29_RevalidationStable ==
    [][calls' = calls + 1 =>
          /\ ~outcome'.raised
          /\ DOMAIN outcome'.issues = ReportKeys
          /\ calls = 1 => \A k \in ReportKeys : outcome'.issues[k] = outcome.issues[k]]_vars

=============================================================================
